---- MODULE Spec2Model ----
(***************************************************************************)
(* Model of the room/session coordination core of server.js: the two       *)
(* process-wide maps `rooms` and `players`, the socket.io multicast groups, *)
(* the countdown timers armed by startGame, and one action per socket      *)
(* event handler.  Every handler runs to completion (single-threaded event *)
(* loop), so every handler is one atomic action.                           *)
(***************************************************************************)
EXTENDS Integers, Sequences, FiniteSets, TLC

\* ---- bounds of the model ------------------------------------------------
Sessions == {"s1", "s2", "s3"}      \* socket ids, one per connection
Codes    == {"AAAAAA", "BBBBBB"}    \* values generateRoomCode may return
Names    == {"ann"}                 \* data.playerName
Drawings == {"d1"}                  \* data.drawing
Slogans  == {"g1"}                  \* data.slogan
Messages == {"m1"}                  \* data.message
GameSessions == {"s1", "s2", "s3"}  \* the sockets of SpecGame
GameCodes    == {"AAAAAA"}          \* the room codes of SpecGame
FullSessions == {"s1", "s2"}        \* the sockets of SpecFull
FullCodes    == {"AAAAAA"}          \* the room codes of SpecFull
MaxEntries  == 3   \* Spec: roster entries explored, over all live rooms
GameEntries == 2   \* SpecGame: roster entries explored, over all live rooms
MaxStarts   == 2   \* SpecGame: countdown timers pending at the same time
FairSessions == {"s1", "s2"}        \* the sockets of SpecFair
FairEntries == 2   \* SpecFair: roster entries explored, over all live rooms
FairStarts  == 1   \* SpecFair: countdown timers pending at the same time
FairSubs    == 1   \* SpecFair: drawings explored, over all live rooms
PlaySessions == {"s1", "s2"}        \* the sockets of SpecPlay
PlayEntries == 2   \* SpecPlay: roster entries explored, over all live rooms
MaxSubs     == 3   \* SpecPlay: drawings and slogans explored, over all live rooms

\* ---- program constants --------------------------------------------------
MaxPlayers     == 8     \* room.players.length >= 8
MinPlayers     == 2     \* room.players.length < 2
CountdownStart == 3     \* let countdown = 3 ; gameStarting {countdown: 3}
DrawingTime    == 90    \* phaseUpdate {phase: 'drawing', timer: 90}

VARIABLES
    sock,      \* sock[s]: "idle" (never connected), "open", "closed"
    rooms,     \* the `rooms` Map: live room code -> room object
    players,   \* the `players` Map: socket id -> {id, name, isHost, roomCode}
    groups,    \* groups[s]: the socket.io rooms socket s has joined
    timers,    \* the pending setInterval timers, in arming order
    fired,     \* what the timers cleared so far had emitted
    out        \* events emitted by the handler that ran last, in order

vars == <<sock, rooms, players, groups, timers, fired, out>>

\* ---- helpers ------------------------------------------------------------
\* an emitted event: its name, the sockets it is delivered to, its payload
Ev(name, to, arg) == [name |-> name, to |-> to, arg |-> arg]

\* io.to(code): every socket that is currently in the multicast group
InGroup(g, code) == {s \in Sessions : code \in g[s]}

\* Map.set / Map.delete
MapSet(m, k, v) == [x \in (DOMAIN m) \cup {k} |-> IF x = k THEN v ELSE m[x]]
MapDelete(m, k) == [x \in (DOMAIN m) \ {k} |-> m[x]]

\* Array.prototype.filter(p => p.id !== id)
RECURSIVE FilterOut(_, _)
FilterOut(ps, id) ==
    IF ps = <<>> THEN <<>>
    ELSE IF Head(ps).id = id THEN FilterOut(Tail(ps), id)
         ELSE <<Head(ps)>> \o FilterOut(Tail(ps), id)

\* new Map()
EmptyMap == [x \in {} |-> x]

Init ==
    /\ sock    = [s \in Sessions |-> "idle"]
    /\ rooms   = EmptyMap
    /\ players = EmptyMap
    /\ groups  = [s \in Sessions |-> {}]
    /\ timers  = <<>>
    /\ fired   = {}
    /\ out     = <<>>

\* io.on('connection'): registers the handlers of the new socket
Connect(s) ==
    /\ sock[s] = "idle"
    /\ sock' = [sock EXCEPT ![s] = "open"]
    /\ out' = <<>>
    /\ UNCHANGED <<rooms, players, groups, timers, fired>>

\* the createRoom handler with the creator not flagged as host
CreateRoomNotHost(s, code, name) ==
    /\ sock[s] = "open"
    /\ LET player == [id |-> s, name |-> name, isHost |-> FALSE]
           room   == [code |-> code, host |-> s, players |-> <<player>>,
                      gameState |-> "waiting", drawings |-> <<>>, slogans |-> <<>>]
       IN /\ rooms'   = MapSet(rooms, code, room)
          /\ players' = MapSet(players, s,
                 [id |-> s, name |-> name, isHost |-> FALSE, roomCode |-> code])
          /\ groups'  = [groups EXCEPT ![s] = @ \cup {code}]
          /\ out'     = <<Ev("roomCreated", {s}, <<code, s>>)>>
    /\ UNCHANGED <<sock, timers, fired>>

\* socket.on('createRoom'); code is the value generateRoomCode() returned
CreateRoom(s, code, name) ==
    /\ sock[s] = "open"
    /\ LET player == [id |-> s, name |-> name, isHost |-> TRUE]
           room   == [code |-> code, host |-> s, players |-> <<player>>,
                      gameState |-> "waiting", drawings |-> <<>>, slogans |-> <<>>]
       IN /\ rooms'   = MapSet(rooms, code, room)
          /\ players' = MapSet(players, s,
                 [id |-> s, name |-> name, isHost |-> TRUE, roomCode |-> code])
          /\ groups'  = [groups EXCEPT ![s] = @ \cup {code}]
          /\ out'     = <<Ev("roomCreated", {s}, <<code, s>>)>>
    /\ UNCHANGED <<sock, timers, fired>>

\* the capacity test off by one
RoomFullOffByOne(room) == Len(room.players) > MaxPlayers

\* if (room.players.length >= 8)
RoomFull(room) == Len(room.players) >= MaxPlayers

\* the joinRoom handler with socket.join moved ahead of the validation
JoinRoomJoinsFirst(s, code, name) ==
    /\ sock[s] = "open"
    /\ groups' = [groups EXCEPT ![s] = @ \cup {code}]
    /\ IF code \notin DOMAIN rooms
       THEN /\ out' = <<Ev("error", {s}, <<"RoomNotFound">>)>>
            /\ UNCHANGED <<rooms, players>>
       ELSE IF RoomFull(rooms[code])
       THEN /\ out' = <<Ev("error", {s}, <<"RoomFull">>)>>
            /\ UNCHANGED <<rooms, players>>
       ELSE LET player == [id |-> s, name |-> name, isHost |-> FALSE]
                roster == Append(rooms[code].players, player)
            IN /\ rooms'   = [rooms EXCEPT ![code].players = roster]
               /\ players' = MapSet(players, s,
                      [id |-> s, name |-> name, isHost |-> FALSE, roomCode |-> code])
               /\ out'     = <<Ev("roomJoined", {s}, <<code, roster, s>>),
                               Ev("playerJoined", InGroup(groups', code), <<player>>)>>
    /\ UNCHANGED <<sock, timers, fired>>

\* socket.on('joinRoom')
JoinRoom(s, code, name) ==
    /\ sock[s] = "open"
    /\ IF code \notin DOMAIN rooms
       THEN /\ out' = <<Ev("error", {s}, <<"RoomNotFound">>)>>
            /\ UNCHANGED <<rooms, players, groups>>
       ELSE IF RoomFull(rooms[code])
       THEN /\ out' = <<Ev("error", {s}, <<"RoomFull">>)>>
            /\ UNCHANGED <<rooms, players, groups>>
       ELSE LET player == [id |-> s, name |-> name, isHost |-> FALSE]
                roster == Append(rooms[code].players, player)
                g2     == [groups EXCEPT ![s] = @ \cup {code}]
            IN /\ rooms'   = [rooms EXCEPT ![code].players = roster]
               /\ players' = MapSet(players, s,
                      [id |-> s, name |-> name, isHost |-> FALSE, roomCode |-> code])
               /\ groups'  = g2
               /\ out'     = <<Ev("roomJoined", {s}, <<code, roster, s>>),
                               Ev("playerJoined", InGroup(g2, code), <<player>>)>>
    /\ UNCHANGED <<sock, timers, fired>>

\* the guard without its host test
NotHostUnchecked(code, s) == code \notin DOMAIN rooms

\* if (!room || room.host !== socket.id) return;
NotHost(code, s) == code \notin DOMAIN rooms \/ rooms[code].host # s

\* if (room.players.length < 2)
TooFew(room) == Len(room.players) < MinPlayers

\* the handle setInterval returns: one no pending timer holds
FreeHandle ==
    CHOOSE k \in 1..(Len(timers) + 1) :
        /\ \A i \in 1..Len(timers) : timers[i].id # k
        /\ \A j \in 1..(k - 1) : \E i \in 1..Len(timers) : timers[i].id = j

\* socket.on('startGame'): on success arms a setInterval whose closure holds
\* the room code and its own countdown; `sent` logs what that timer emitted
StartGame(s, code) ==
    /\ sock[s] = "open"
    /\ IF NotHost(code, s)
       THEN /\ out' = <<>>
            /\ UNCHANGED <<rooms, timers>>
       ELSE IF TooFew(rooms[code])
       THEN /\ out' = <<Ev("error", {s}, <<"NotEnoughPlayers">>)>>
            /\ UNCHANGED <<rooms, timers>>
       ELSE /\ Len(timers) < MaxStarts
            /\ rooms'  = [rooms EXCEPT ![code].gameState = "drawing"]
            /\ out'    = <<Ev("gameStarting", InGroup(groups, code), <<CountdownStart>>)>>
            /\ timers' = Append(timers, [id |-> FreeHandle, code |-> code,
                                         countdown |-> CountdownStart,
                                         sent |-> <<>>, phases |-> 0])
    /\ UNCHANGED <<sock, players, groups, fired>>

\* the end test one tick late
CountdownOverLate(countdown) == countdown < 0

\* if (countdown <= 0)
CountdownOver(countdown) == countdown <= 0

\* the callback without its clearInterval
WithoutKept(ts, i) == ts

\* timers without its i-th element: clearInterval(timer)
Without(ts, i) == SubSeq(ts, 1, i - 1) \o SubSeq(ts, i + 1, Len(ts))

\* the setInterval callback of the i-th pending timer
Tick(i) ==
    /\ i \in 1..Len(timers)
    /\ LET t    == timers[i]
           n    == t.countdown - 1
           to   == InGroup(groups, t.code)
           over == CountdownOver(n)
           t2   == [id |-> t.id, code |-> t.code, countdown |-> n,
                    sent |-> Append(t.sent, n),
                    phases |-> IF over THEN t.phases + 1 ELSE t.phases]
       IN /\ timers' = IF over THEN Without(timers, i) ELSE [timers EXCEPT ![i] = t2]
          /\ fired'  = IF over THEN fired \cup {[code |-> t2.code, sent |-> t2.sent,
                                                 phases |-> t2.phases]}
                       ELSE fired
          /\ out' = <<Ev("countdownUpdate", to, <<n>>)>> \o
                    (IF over THEN <<Ev("phaseUpdate", to, <<"drawing", DrawingTime>>)>>
                     ELSE <<>>)
    /\ UNCHANGED <<sock, rooms, players, groups>>

\* entries recorded so far in all live rooms
RECURSIVE SumSubs(_)
SumSubs(cs) ==
    IF cs = {} THEN 0
    ELSE LET c == CHOOSE x \in cs : TRUE
         IN Len(rooms[c].drawings) + Len(rooms[c].slogans) + SumSubs(cs \ {c})
Submitted == SumSubs(DOMAIN rooms)

\* the submitDrawing handler with the total read before the push
SubmitDrawingStaleTotal(s, d) ==
    /\ sock[s] = "open"
    /\ IF s \notin DOMAIN players \/ players[s].roomCode \notin DOMAIN rooms
       THEN /\ out' = <<>>
            /\ UNCHANGED rooms
       ELSE LET player == players[s]
                room   == rooms[player.roomCode]
                ds     == Append(room.drawings, [playerId |-> s, drawing |-> d])
            IN /\ rooms' = [rooms EXCEPT ![player.roomCode].drawings = ds]
               /\ out'   = <<Ev("drawingReceived", InGroup(groups, room.code),
                                <<player.name, Len(room.drawings)>>)>>
    /\ UNCHANGED <<sock, players, groups, timers, fired>>

\* socket.on('submitDrawing'); Date.now() is stored and never read
SubmitDrawing(s, d) ==
    /\ sock[s] = "open"
    /\ IF s \notin DOMAIN players \/ players[s].roomCode \notin DOMAIN rooms
       THEN /\ out' = <<>>
            /\ UNCHANGED rooms
       ELSE LET player == players[s]
                room   == rooms[player.roomCode]
                ds     == Append(room.drawings, [playerId |-> s, drawing |-> d])
            IN /\ rooms' = [rooms EXCEPT ![player.roomCode].drawings = ds]
               /\ out'   = <<Ev("drawingReceived", InGroup(groups, room.code),
                                <<player.name, Len(ds)>>)>>
    /\ UNCHANGED <<sock, players, groups, timers, fired>>

\* socket.on('submitSlogan'); Date.now() is stored and never read
SubmitSlogan(s, g) ==
    /\ sock[s] = "open"
    /\ IF s \notin DOMAIN players \/ players[s].roomCode \notin DOMAIN rooms
       THEN /\ out' = <<>>
            /\ UNCHANGED rooms
       ELSE LET player == players[s]
                room   == rooms[player.roomCode]
                gs     == Append(room.slogans, [playerId |-> s, slogan |-> g])
            IN /\ rooms' = [rooms EXCEPT ![player.roomCode].slogans = gs]
               /\ out'   = <<Ev("sloganReceived", InGroup(groups, room.code),
                                <<player.name, Len(gs)>>)>>
    /\ UNCHANGED <<sock, players, groups, timers, fired>>

\* socket.on('chatMessage'); the formatted wall-clock time is not modelled
ChatMessage(s, m) ==
    /\ sock[s] = "open"
    /\ out' = IF s \notin DOMAIN players THEN <<>>
              ELSE <<Ev("chatMessage", InGroup(groups, players[s].roomCode),
                        <<players[s].name, m>>)>>
    /\ UNCHANGED <<sock, rooms, players, groups, timers, fired>>

\* the removal without the host hand-over
RemovePlayerNoPromotion(room, s) == [room EXCEPT !.players = FilterOut(room.players, s)]

\* room.players = room.players.filter(...) followed by the host hand-over:
\* the room object as the disconnect handler leaves it
RemovePlayer(room, s) ==
    LET rest == FilterOut(room.players, s)
    IN IF room.host = s /\ Len(rest) > 0
       THEN [room EXCEPT !.players = [rest EXCEPT ![1].isHost = TRUE],
                         !.host = rest[1].id]
       ELSE [room EXCEPT !.players = rest]

\* the emptiness test that never deletes
RosterEmptyNever(room) == FALSE

\* if (room.players.length === 0)
RosterEmpty(room) == Len(room.players) = 0

\* the disconnect handler without its players.delete
PlayersAfterKept(ps, s) == ps

\* players.delete(socket.id), reached only when the socket has an entry
PlayersAfter(ps, s) == IF s \in DOMAIN ps THEN MapDelete(ps, s) ELSE ps

\* the `rooms` Map as the disconnect handler of socket s leaves it
RoomsAfter(rs, ps, s) ==
    IF s \notin DOMAIN ps THEN rs
    ELSE LET code == ps[s].roomCode
         IN IF code \notin DOMAIN rs THEN rs
            ELSE LET room == RemovePlayer(rs[code], s)
                 IN IF RosterEmpty(room) THEN MapDelete(rs, room.code)
                    ELSE [rs EXCEPT ![code] = room]

\* the events the disconnect handler of socket s emits, g being the groups
OutAfter(rs, ps, g, s) ==
    IF s \notin DOMAIN ps THEN <<>>
    ELSE LET code == ps[s].roomCode
         IN IF code \notin DOMAIN rs THEN <<>>
            ELSE LET old  == rs[code]
                     room == RemovePlayer(old, s)
                     to   == InGroup(g, room.code)
                     promoted == old.host = s /\ Len(room.players) > 0
                 IN (IF promoted
                     THEN <<Ev("newHost", to, <<room.players[1]>>)>>
                     ELSE <<>>) \o
                    (IF RosterEmpty(room) THEN <<>>
                     ELSE <<Ev("playerLeft", to, <<s>>)>>)

\* socket.on('disconnect'): socket.io has already taken the socket out of
\* every multicast group when the handler runs
Disconnect(s) ==
    /\ sock[s] = "open"
    /\ sock' = [sock EXCEPT ![s] = "closed"]
    /\ groups' = [groups EXCEPT ![s] = {}]
    /\ rooms' = RoomsAfter(rooms, players, s)
    /\ players' = PlayersAfter(players, s)
    /\ out' = OutAfter(rooms, players, groups', s)
    /\ UNCHANGED <<timers, fired>>

\* roster entries held by all live rooms
RECURSIVE SumEntries(_)
SumEntries(cs) ==
    IF cs = {} THEN 0
    ELSE LET c == CHOOSE x \in cs : TRUE
         IN Len(rooms[c].players) + SumEntries(cs \ {c})
Entries == SumEntries(DOMAIN rooms)

\* the createRoom / joinRoom calls a specification explores: those that leave
\* at most max roster entries in the registry
CreateWithin(c, max) ==
    Entries - (IF c \in DOMAIN rooms THEN Len(rooms[c].players) ELSE 0) < max
JoinWithin(c, max) == c \in DOMAIN rooms => Entries < max

\* rooms, rosters and hosts: three sockets, two room codes
Next ==
    \/ \E s \in Sessions : Connect(s)
    \/ \E s \in Sessions, c \in Codes, n \in Names :
          CreateWithin(c, MaxEntries) /\ CreateRoom(s, c, n)
    \/ \E s \in Sessions, c \in Codes, n \in Names :
          JoinWithin(c, MaxEntries) /\ JoinRoom(s, c, n)
    \/ \E s \in Sessions : Disconnect(s)

Spec == Init /\ [][Next]_vars

\* the countdown: three sockets, one room code, startGame and the timer callbacks
NextGame ==
    \/ \E s \in GameSessions : Connect(s)
    \/ \E s \in GameSessions, c \in GameCodes, n \in Names :
          CreateWithin(c, GameEntries) /\ CreateRoom(s, c, n)
    \/ \E s \in GameSessions, c \in GameCodes, n \in Names :
          JoinWithin(c, GameEntries) /\ JoinRoom(s, c, n)
    \/ \E s \in GameSessions, c \in GameCodes : StartGame(s, c)
    \/ \E i \in 1..MaxStarts : Tick(i)
    \/ \E s \in GameSessions : Disconnect(s)

SpecGame == Init /\ [][NextGame]_vars

\* room capacity: rosters grow up to the limit of the joinRoom handler
NextFull ==
    \/ \E s \in FullSessions : Connect(s)
    \/ \E s \in FullSessions, c \in FullCodes, n \in Names : CreateRoom(s, c, n)
    \/ \E s \in FullSessions, c \in FullCodes, n \in Names : JoinRoom(s, c, n)
    \/ \E s \in FullSessions : Disconnect(s)

SpecFull == Init /\ [][NextFull]_vars

\* submissions and chat: two sockets, two room codes
NextPlay ==
    \/ \E s \in PlaySessions : Connect(s)
    \/ \E s \in PlaySessions, c \in Codes, n \in Names :
          CreateWithin(c, PlayEntries) /\ CreateRoom(s, c, n)
    \/ \E s \in PlaySessions, c \in Codes, n \in Names :
          JoinWithin(c, PlayEntries) /\ JoinRoom(s, c, n)
    \/ \E s \in PlaySessions, d \in Drawings : Submitted < MaxSubs /\ SubmitDrawing(s, d)
    \/ \E s \in PlaySessions, g \in Slogans : Submitted < MaxSubs /\ SubmitSlogan(s, g)
    \/ \E s \in PlaySessions, m \in Messages : ChatMessage(s, m)
    \/ \E s \in PlaySessions : Disconnect(s)

SpecPlay == Init /\ [][NextPlay]_vars

\* the startGame calls a specification explores: the rejected ones, and the
\* successful ones that leave at most max timers pending
StartWithin(s, c, max) ==
    IF NotHost(c, s) THEN TRUE
    ELSE IF TooFew(rooms[c]) THEN TRUE
    ELSE Len(timers) < max

\* the callback of the pending timer whose handle is k
TickOf(k) == \E i \in 1..Len(timers) : timers[i].id = k /\ Tick(i)

\* the countdown under a fair timer queue: two sockets, one room code, the
\* room handlers, submitDrawing for the two submission handlers, chat, and
\* every pending interval timer keeps being called back
NextFair ==
    \/ \E s \in FairSessions : Connect(s)
    \/ \E s \in FairSessions, c \in GameCodes, n \in Names :
          CreateWithin(c, FairEntries) /\ CreateRoom(s, c, n)
    \/ \E s \in FairSessions, c \in GameCodes, n \in Names :
          JoinWithin(c, FairEntries) /\ JoinRoom(s, c, n)
    \/ \E s \in FairSessions, c \in GameCodes :
          /\ StartWithin(s, c, FairStarts)
          /\ StartGame(s, c)
    \/ \E k \in 1..FairStarts : TickOf(k)
    \/ \E s \in FairSessions, d \in Drawings : Submitted < FairSubs /\ SubmitDrawing(s, d)
    \/ \E s \in FairSessions, m \in Messages : ChatMessage(s, m)
    \/ \E s \in FairSessions : Disconnect(s)

SpecFair ==
    Init /\ [][NextFair]_vars /\ \A k \in 1..FairStarts : WF_vars(TickOf(k))

\* ---- properties ---------------------------------------------------------
\* the ids of a roster, and the events of a given name in an output
Ids(ps) == {ps[i].id : i \in 1..Len(ps)}
Named(o, name) == {i \in 1..Len(o) : o[i].name = name}

\* C1: every live room with a non-empty roster has a host that is the id of
\* one of its roster entries
C1_HostInRoster ==
    \A c \in DOMAIN rooms :
        Len(rooms[c].players) > 0 => rooms[c].host \in Ids(rooms[c].players)

\* C1 witness: the last handler handed the host role over, and the new host
\* is on the roster of its room
C1_Witness ==
    /\ Named(out, "newHost") # {}
    /\ \E c \in DOMAIN rooms :
          /\ rooms[c].host = out[1].arg[1].id
          /\ rooms[c].host \in Ids(rooms[c].players)
          /\ Len(rooms[c].players) >= 2

\* C2: a pending countdown timer always belongs to a room of the registry:
\* the disconnect that destroys a room cancels its timer, so no callback
\* fires for a code that is not registered
C2_NoTimerWithoutRoom ==
    \A i \in 1..Len(timers) : timers[i].code \in DOMAIN rooms

\* the countdown values a timer has emitted once its counter stands at n
SentDownTo(n) == [k \in 1..(CountdownStart - n) |-> CountdownStart - k]

\* C3 as stated: gameStarting{3}, then countdownUpdate 3, 2, 1, then one
\* phaseUpdate
C3_CountdownThreeTwoOne ==
    /\ \A i \in 1..Len(timers) :
          /\ Len(timers[i].sent) < 3
          /\ timers[i].sent = SubSeq(<<3, 2, 1>>, 1, Len(timers[i].sent))
    /\ \A t \in fired : t.sent = <<3, 2, 1>> /\ t.phases = 1

\* C3 amended: a successful startGame emits gameStarting{3} and arms a timer
\* that has emitted nothing; a pending timer has emitted the first values of
\* 2, 1, 0 and no phaseUpdate; a cleared timer has emitted exactly 2, 1, 0
\* and exactly one phaseUpdate; a tick emits phaseUpdate{drawing, 90} last
C3_CountdownTwoOneZero ==
    /\ \A i \in 1..Len(timers) :
          /\ timers[i].countdown \in 1..CountdownStart
          /\ timers[i].sent = SentDownTo(timers[i].countdown)
          /\ timers[i].phases = 0
    /\ \A t \in fired : t.sent = <<2, 1, 0>> /\ t.phases = 1
    /\ Named(out, "gameStarting") # {} =>
          /\ Len(out) = 1 /\ out[1].arg = <<3>>
          /\ timers # <<>> /\ timers[Len(timers)].sent = <<>>
    /\ Named(out, "countdownUpdate") # {} =>
          /\ Named(out, "countdownUpdate") = {1}
          /\ out[1].arg[1] \in {2, 1, 0}
          /\ IF out[1].arg[1] = 0
             THEN Len(out) = 2 /\ out[2].name = "phaseUpdate"
                  /\ out[2].arg = <<"drawing", 90>>
             ELSE Len(out) = 1

\* C3 witness: a countdown ran to its end and the last tick announced the phase
C3_Witness ==
    /\ \E t \in fired : t.sent = <<2, 1, 0>>
    /\ Len(out) = 2 /\ out[2].name = "phaseUpdate"

\* C4: a directory entry carries the isHost value of a roster entry of its
\* session in the room it names
C4_DirectoryIsHost ==
    \A s \in DOMAIN players :
        LET c == players[s].roomCode
        IN (c \in DOMAIN rooms /\ s \in Ids(rooms[c].players)) =>
              \E i \in 1..Len(rooms[c].players) :
                  /\ rooms[c].players[i].id = s
                  /\ rooms[c].players[i].isHost = players[s].isHost

\* C5: a session is on the roster of at most one room, and it is on the
\* roster of room c exactly when its directory entry names c
C5_OneRoomPerPlayer ==
    \A s \in Sessions :
        /\ \A c, d \in DOMAIN rooms :
              (s \in Ids(rooms[c].players) /\ s \in Ids(rooms[d].players)) => c = d
        /\ \A c \in DOMAIN rooms :
              s \in Ids(rooms[c].players) <=>
                  (s \in DOMAIN players /\ players[s].roomCode = c)

\* C6: when a session disconnects, every room it hosts in which other players
\* remain gets the earliest-joined remaining player as host, flagged isHost,
\* with exactly one newHost event; and when the session is not the host of
\* its room, that room keeps its host and its isHost flags and no newHost is
\* emitted
C6_HostMigration ==
    [][\A s \in Sessions : Disconnect(s) =>
          /\ \A c \in DOMAIN rooms :
                LET rest == FilterOut(rooms[c].players, s)
                IN (rooms[c].host = s /\ s \in Ids(rooms[c].players) /\ rest # <<>>) =>
                      /\ c \in DOMAIN rooms'
                      /\ rooms'[c].host = rest[1].id
                      /\ rooms'[c].players[1].id = rest[1].id
                      /\ rooms'[c].players[1].isHost
                      /\ rooms'[c].host \in Ids(rooms'[c].players)
                      /\ Cardinality(Named(out', "newHost")) = 1
          /\ \A c \in DOMAIN rooms :
                (s \in DOMAIN players /\ players[s].roomCode = c /\ rooms[c].host # s) =>
                      /\ Named(out', "newHost") = {}
                      /\ c \in DOMAIN rooms' =>
                            /\ rooms'[c].host = rooms[c].host
                            /\ rooms'[c].players = FilterOut(rooms[c].players, s)
      ]_vars

\* C7: at most one countdown timer is pending for any room code
C7_OneCountdownPerRoom ==
    \A c \in Codes : Cardinality({i \in 1..Len(timers) : timers[i].code = c}) <= 1

\* C8: no live room has an empty roster; the disconnect that takes the last
\* entry off a roster removes the room in the same step; and a joinRoom that
\* names a code absent from the registry gets the room-not-found error and
\* changes nothing
C8_NoEmptyRoom ==
    /\ [](\A c \in DOMAIN rooms : Len(rooms[c].players) > 0)
    /\ [][\A s \in Sessions : Disconnect(s) =>
             \A c \in DOMAIN rooms :
                 (s \in DOMAIN players /\ players[s].roomCode = c
                    /\ FilterOut(rooms[c].players, s) = <<>>) => c \notin DOMAIN rooms'
         ]_vars
    /\ [][\A s \in Sessions, c \in Codes, n \in Names :
             (JoinRoom(s, c, n) /\ c \notin DOMAIN rooms) =>
                 /\ out' = <<Ev("error", {s}, <<"RoomNotFound">>)>>
                 /\ rooms' = rooms /\ players' = players /\ groups' = groups
         ]_vars

\* C8 witness: a directory entry still names a room that was destroyed, and
\* the last joinRoom failed with the room-not-found error
C8_Witness ==
    /\ \E s \in DOMAIN players : players[s].roomCode \notin DOMAIN rooms
    /\ \E s \in Sessions : sock[s] = "closed"
    /\ Len(out) = 1 /\ out[1].name = "error" /\ out[1].arg = <<"RoomNotFound">>

\* C9: no roster holds more than 8 entries, and a joinRoom naming a live room
\* fails with RoomFull exactly when the roster already holds 8 or more, and
\* otherwise appends the player
C9_RoomFullAtEight ==
    /\ [](\A c \in DOMAIN rooms : Len(rooms[c].players) <= 8)
    /\ [][\A s \in Sessions, c \in Codes, n \in Names :
             (JoinRoom(s, c, n) /\ c \in DOMAIN rooms) =>
                 IF Len(rooms[c].players) >= 8
                 THEN /\ out' = <<Ev("error", {s}, <<"RoomFull">>)>>
                      /\ rooms' = rooms
                 ELSE /\ Named(out', "error") = {}
                      /\ Len(rooms'[c].players) = Len(rooms[c].players) + 1
                      /\ rooms'[c].players[Len(rooms'[c].players)].id = s
         ]_vars

\* C9 witness: a join was refused with RoomFull on a roster of exactly 8
C9_Witness ==
    /\ Len(out) = 1 /\ out[1].name = "error" /\ out[1].arg = <<"RoomFull">>
    /\ \E c \in DOMAIN rooms : Len(rooms[c].players) = 8

\* C10: a startGame naming no live room or sent by a session that is not the
\* host changes nothing and emits nothing; a startGame by the host of a room
\* with fewer than 2 players changes nothing and emits one error to the
\* requester only
C10_RejectedStartGame ==
    [][\A s \in Sessions, c \in Codes : StartGame(s, c) =>
          IF c \notin DOMAIN rooms \/ rooms[c].host # s
          THEN out' = <<>> /\ rooms' = rooms /\ timers' = timers
          ELSE Len(rooms[c].players) < 2 =>
                  /\ out' = <<Ev("error", {s}, <<"NotEnoughPlayers">>)>>
                  /\ rooms' = rooms /\ timers' = timers
      ]_vars

\* C10 witness: the host of a one-player room asked to start and got the error
C10_Witness ==
    /\ Len(out) = 1 /\ out[1].name = "error" /\ out[1].arg = <<"NotEnoughPlayers">>
    /\ \E c \in DOMAIN rooms :
          /\ out[1].to = {rooms[c].host}
          /\ Len(rooms[c].players) = 1
          /\ rooms[c].gameState = "waiting"

\* C11: a successful joinRoom by a socket that is new to the room sends
\* playerJoined to the sockets that were in the room's group before the join
\* and not to the joiner, and sends the joiner exactly one roomJoined carrying
\* the roster with the joiner on it
C11_PlayerJoinedExcludesJoiner ==
    [][\A s \in Sessions, c \in Codes, n \in Names :
          (JoinRoom(s, c, n) /\ c \in DOMAIN rooms /\ Len(rooms[c].players) < 8
             /\ c \notin groups[s]) =>
              /\ Cardinality(Named(out', "roomJoined")) = 1
              /\ Cardinality(Named(out', "playerJoined")) = 1
              /\ \A i \in Named(out', "roomJoined") :
                    /\ out'[i].to = {s}
                    /\ out'[i].arg[2] = rooms'[c].players
                    /\ s \in Ids(out'[i].arg[2])
              /\ \A i \in Named(out', "playerJoined") :
                    /\ out'[i].to = InGroup(groups, c) \ {s}
                    /\ s \notin out'[i].to
      ]_vars

\* C12: a createRoom by a socket that is in no room yet registers the new
\* room under a code no live room holds, and leaves every room that was
\* already registered as it was
C12_CodesUnique ==
    [][\A s \in Sessions, c \in Codes, n \in Names :
          (CreateRoom(s, c, n) /\ s \notin DOMAIN players) =>
              /\ c \notin DOMAIN rooms
              /\ \A d \in DOMAIN rooms : d \in DOMAIN rooms' /\ rooms'[d] = rooms[d]
      ]_vars

\* C13: a joinRoom that names no live room, or a room whose roster already
\* holds 8 or more, emits exactly one error, to the requester only, and
\* changes no room, no directory entry, no group membership and no timer
C13_FailedJoinChangesNothing ==
    [][\A s \in Sessions, c \in Codes, n \in Names :
          (JoinRoom(s, c, n) /\ (c \notin DOMAIN rooms \/ Len(rooms[c].players) >= 8)) =>
              /\ Len(out') = 1
              /\ out'[1].name = "error"
              /\ out'[1].to = {s}
              /\ out'[1].arg = IF c \in DOMAIN rooms THEN <<"RoomFull">>
                               ELSE <<"RoomNotFound">>
              /\ rooms' = rooms /\ players' = players
              /\ groups' = groups /\ timers' = timers
      ]_vars

\* C13 witness: a socket that is in no room and in no group was refused by a
\* room of 8 and is still in no room and in no group
C13_Witness ==
    \E s \in Sessions, c \in DOMAIN rooms :
        /\ out = <<Ev("error", {s}, <<"RoomFull">>)>>
        /\ Len(rooms[c].players) = 8
        /\ s \notin DOMAIN players
        /\ s \notin Ids(rooms[c].players)
        /\ groups[s] = {}

\* C14: for every socket, running the disconnect handler a second time
\* changes no room and no directory entry and emits nothing, and so does
\* running it once for a socket that has no directory entry
C14_RemoveIdempotent ==
    \A s \in Sessions :
        LET g1 == [groups EXCEPT ![s] = {}]
            r1 == RoomsAfter(rooms, players, s)
            p1 == PlayersAfter(players, s)
        IN /\ RoomsAfter(r1, p1, s) = r1
           /\ PlayersAfter(p1, s) = p1
           /\ OutAfter(r1, p1, g1, s) = <<>>
           /\ s \notin DOMAIN players =>
                 /\ r1 = rooms /\ p1 = players
                 /\ OutAfter(rooms, players, g1, s) = <<>>

\* C14 witness: a socket was removed from a room that lives on, and a socket
\* that never entered a room has disconnected too
C14_Witness ==
    /\ \E s \in Sessions :
          /\ sock[s] = "closed" /\ s \notin DOMAIN players
          /\ Named(out, "playerLeft") # {}
          /\ \A i \in Named(out, "playerLeft") : out[i].arg = <<s>>
    /\ \E s \in Sessions :
          /\ sock[s] = "closed"
          /\ \A c \in DOMAIN rooms : s \notin Ids(rooms[c].players)
          /\ \A i \in Named(out, "playerLeft") : out[i].arg # <<s>>

\* C15: right after a createRoom the handler has emitted roomCreated to the
\* creator and nothing else, and the room registered under the code it
\* returned holds exactly one player, the creator, flagged isHost, who is
\* room.host; gameState is 'waiting' and drawings and slogans are empty
C15_FreshRoom ==
    \A i \in Named(out, "roomCreated") :
        LET c == out[i].arg[1]
            s == out[i].arg[2]
        IN /\ Len(out) = 1
           /\ out[i].to = {s}
           /\ c \in DOMAIN rooms
           /\ rooms[c].code = c
           /\ Len(rooms[c].players) = 1
           /\ rooms[c].players[1].id = s
           /\ rooms[c].players[1].isHost
           /\ rooms[c].host = s
           /\ rooms[c].gameState = "waiting"
           /\ rooms[c].drawings = <<>>
           /\ rooms[c].slogans = <<>>
           /\ s \in DOMAIN players /\ players[s].roomCode = c

\* C15 witness: a room was just created by a socket while another room,
\* with two players, is live
C15_Witness ==
    /\ Named(out, "roomCreated") = {1}
    /\ \E c \in DOMAIN rooms : Len(rooms[c].players) = 2
    /\ rooms[out[1].arg[1]].host = out[1].arg[2]

\* C16: a submitDrawing (submitSlogan) from a socket whose directory entry
\* names a live room appends exactly one entry, the submitted one, to that
\* room's drawings (slogans), leaves the other collection alone, and
\* broadcasts to the room one drawingReceived (sloganReceived) made of the
\* player's name and the previous number of entries plus one, nothing else
C16_SubmissionCounted ==
    /\ [][\A s \in Sessions, d \in Drawings :
             (SubmitDrawing(s, d) /\ s \in DOMAIN players
                /\ players[s].roomCode \in DOMAIN rooms) =>
                 LET c == players[s].roomCode
                 IN /\ rooms'[c].drawings =
                          Append(rooms[c].drawings, [playerId |-> s, drawing |-> d])
                    /\ rooms'[c].slogans = rooms[c].slogans
                    /\ out' = <<Ev("drawingReceived", InGroup(groups, c),
                                   <<players[s].name, Len(rooms[c].drawings) + 1>>)>>
         ]_vars
    /\ [][\A s \in Sessions, g \in Slogans :
             (SubmitSlogan(s, g) /\ s \in DOMAIN players
                /\ players[s].roomCode \in DOMAIN rooms) =>
                 LET c == players[s].roomCode
                 IN /\ rooms'[c].slogans =
                          Append(rooms[c].slogans, [playerId |-> s, slogan |-> g])
                    /\ rooms'[c].drawings = rooms[c].drawings
                    /\ out' = <<Ev("sloganReceived", InGroup(groups, c),
                                   <<players[s].name, Len(rooms[c].slogans) + 1>>)>>
         ]_vars

\* C16 witness: a drawing was submitted to a room that held 2 drawings, and
\* the room was told the total is 3
C16_Witness ==
    /\ Named(out, "drawingReceived") = {1}
    /\ out[1].arg[2] = 3
    /\ \E c \in DOMAIN rooms : Len(rooms[c].drawings) = 3 /\ out[1].to # {}

\* C17: in every live room a roster entry is flagged isHost exactly when its
\* id is room.host
C17_HostFlagMatchesHost ==
    \A c \in DOMAIN rooms :
        \A i \in 1..Len(rooms[c].players) :
            rooms[c].players[i].isHost <=> (rooms[c].players[i].id = rooms[c].host)

\* C18: the ids of the entries of any one roster are pairwise distinct
C18_RosterIdsDistinct ==
    \A c \in DOMAIN rooms :
        \A i, j \in 1..Len(rooms[c].players) :
            rooms[c].players[i].id = rooms[c].players[j].id => i = j

\* the rooms of registry rs that have socket r on their roster
MemberOf(rs, r) == {d \in DOMAIN rs : r \in Ids(rs[d].players)}

\* a step that concerns room c leaves every other room as it was
OthersUntouched(c) ==
    \A d \in DOMAIN rooms \ {c} : d \in DOMAIN rooms' /\ rooms'[d] = rooms[d]

\* no room broadcast of the step reaches a socket that is on the roster of
\* other rooms only, before and after the step
NoneOutside(c) ==
    \A i \in 1..Len(out') :
        out'[i].name \notin {"error", "roomJoined", "roomCreated"} =>
            \A r \in out'[i].to :
                LET ms == MemberOf(rooms, r) \cup MemberOf(rooms', r)
                IN ms # {} => c \in ms

\* C19: a joinRoom or startGame naming room c, a submission, chat message or
\* disconnect of a socket whose directory entry names c, and a tick of a
\* timer armed for c leave every other room unchanged and broadcast nothing
\* to sockets that are members of other rooms only
C19_ScopedToRoom ==
    [][/\ \A s \in Sessions, c \in Codes, n \in Names :
             JoinRoom(s, c, n) => OthersUntouched(c) /\ NoneOutside(c)
       /\ \A s \in Sessions, c \in Codes :
             StartGame(s, c) => OthersUntouched(c) /\ NoneOutside(c)
       /\ \A i \in 1..Len(timers) :
             Tick(i) => OthersUntouched(timers[i].code) /\ NoneOutside(timers[i].code)
       /\ \A s \in DOMAIN players :
             LET c == players[s].roomCode
             IN /\ \A d \in Drawings :
                      SubmitDrawing(s, d) => OthersUntouched(c) /\ NoneOutside(c)
                /\ \A g \in Slogans :
                      SubmitSlogan(s, g) => OthersUntouched(c) /\ NoneOutside(c)
                /\ \A m \in Messages :
                      ChatMessage(s, m) => OthersUntouched(c) /\ NoneOutside(c)
                /\ Disconnect(s) => OthersUntouched(c) /\ NoneOutside(c)
      ]_vars

\* a timer with handle k is pending
Pending(k) == \E i \in 1..Len(timers) : timers[i].id = k

\* C20: under a fair timer queue every pending countdown timer is cleared in
\* the end; a pending timer has ticked fewer than three times, and a cleared
\* one ticked exactly three times and emitted phaseUpdate exactly once
C20_CountdownTerminates ==
    /\ \A k \in 1..FairStarts : Pending(k) ~> ~Pending(k)
    /\ [](\A i \in 1..Len(timers) : Len(timers[i].sent) < 3 /\ timers[i].phases = 0)
    /\ [](\A t \in fired : Len(t.sent) = 3 /\ t.phases = 1)

\* C20 witness: a countdown has just run to its end, with its third tick,
\* while nobody was left in its room
C20_Witness ==
    /\ fired # {}
    /\ rooms = EmptyMap
    /\ timers = <<>>
    /\ Named(out, "phaseUpdate") = {2}
====
